---- MODULE Spec2Model ----
\* Model of Rblx2Source.py: the application framework (icon cache, panel
\* frames) and the main panel controller (avatar loading, model export,
\* game selection).  Strings the program inspects character by character
\* (the identifier field, the export payload) are sequences of
\* one-character strings.
EXTENDS Integers, Sequences, FiniteSets, TLC

\* ---------------------------------------------------------------- bounds
MaxLen == 2        \* longest text typed into the identifier field
MaxHandles == 5    \* PhotoImage objects created by create_resized_icon

\* ------------------------------------------------------- program constants
DefaultIconSize == 24
RequestTimeout == 10

\* ------------------------------------------------------------- alphabets
DigitChars == {"1"}
Whitespace == {" "}
OtherChars == {"a"}
Chars == DigitChars \cup Whitespace \cup OtherChars

Keys == Chars \cup {"BackSpace"}

Games == {"TF2", "GMod", "SFM"}
GameOrder == <<"TF2", "GMod", "SFM">>
Label == [g \in Games |->
            IF g = "TF2" THEN <<"T", "F", "2">>
            ELSE IF g = "GMod" THEN <<"G", "M", "o", "d">>
            ELSE <<"S", "F", "M">>]
IconFile == [g \in Games |->
            IF g = "TF2" THEN "tf2.png"
            ELSE IF g = "GMod" THEN "gmod.png" ELSE "sfm.png"]
IconPaths == {IconFile[g] : g \in Games}
IconSizes == {DefaultIconSize, 32}

Panels == {"main", "log", "about"}
FrameNames == Panels \cup {"settings"}

NoId == <<"None">>
NoImage == <<"NoImage">>
NoRequest == [url |-> "none", userIds |-> <<>>, size |-> "", format |-> "",
              timeout |-> 0]
NoHandle == [path |-> "", size |-> 0, serial |-> 0, kind |-> "none"]
NoFile == [state |-> "absent", entries |-> <<>>]
PartialFile == [state |-> "partial", entries |-> <<>>]

VARIABLES
    entry,            \* text of current_state["user_id_entry"]
    current_user_id,  \* self.current_user_id (NoId is None)
    selected_game,    \* self.selected_game
    game_icons,       \* self.game_icons
    game_icon_label,  \* image of current_state["game_icon_label"]
    avatar_label,     \* image of current_state["avatar_label"]
    status_label,     \* text of current_state["status_label"]
    pc,               \* position inside the running button handler
    request,          \* the HTTP request in flight
    image_data,       \* body of the image response
    save_path,        \* path returned by the save dialog
    save_file,        \* the file at the path offered by the save dialog
    ui_stack,         \* stacking order of self.ui_frames, bottom to top
    icon_cache,       \* self.icon_cache
    good_files,       \* icon files on disk that decode
    decode_calls,     \* calls of Image.open per icon path
    next_handle,      \* serial of the next PhotoImage object
    result,           \* value returned by the last create_resized_icon
    lastOp            \* the handler that ran last, with its arguments

mainVars == <<entry, current_user_id, selected_game, game_icons,
              game_icon_label, avatar_label, status_label, pc, request,
              image_data, save_path, save_file>>
frameworkVars == <<ui_stack, icon_cache, good_files, decode_calls,
                   next_handle, result>>
vars == <<entry, current_user_id, selected_game, game_icons,
          game_icon_label, avatar_label, status_label, pc, request,
          image_data, save_path, save_file, ui_stack, icon_cache,
          good_files, decode_calls, next_handle, result, lastOp>>

Op(name) == [op |-> name, arg |-> "", size |-> 0]

\* ------------------------------------------------------ string functions
RECURSIVE LStrip(_)
LStrip(s) ==
    IF s = <<>> THEN s
    ELSE IF Head(s) \in Whitespace THEN LStrip(Tail(s)) ELSE s

RECURSIVE RStrip(_)
RStrip(s) ==
    IF s = <<>> THEN s
    ELSE IF s[Len(s)] \in Whitespace
         THEN RStrip(SubSeq(s, 1, Len(s) - 1)) ELSE s

StripLeftOnly(s) == LStrip(s)

\* str.strip()
Strip(s) == RStrip(LStrip(s))

\* str.isdigit(): non-empty and every character a digit
IsDigit(s) == s # <<>> /\ \A i \in 1..Len(s) : s[i] \in DigitChars

\* raw_input of _execute_avatar_loading
RawInput == Strip(entry)

\* ------------------------------------------------------------ framework
Handle(p, sz, n, k) == [path |-> p, size |-> sz, serial |-> n, kind |-> k]

\* the frames no other frame covers (all are placed over the whole area)
Visible ==
    {f \in Panels :
        \E i \in 1..Len(ui_stack) :
            /\ ui_stack[i] = f
            /\ \A j \in 1..Len(ui_stack) : ui_stack[j] # f => j < i}

RemoveFrame(st, f) == SelectSeq(st, LAMBDA x : x # f)

LowerFrame(st, f) == <<f>> \o RemoveFrame(st, f)

\* tkraise(): the frame goes to the top of the stacking order
RaiseFrame(st, f) == Append(RemoveFrame(st, f), f)

KnownFrame(f) == f \in Panels

\* _raise_frame_by_name
Show(f) ==
    /\ pc = "idle"
    /\ ui_stack' = IF KnownFrame(f) THEN RaiseFrame(ui_stack, f) ELSE ui_stack
    /\ lastOp' = [op |-> "show", arg |-> f, size |-> 0]
    /\ UNCHANGED <<icon_cache, good_files, decode_calls, next_handle, result>>
    /\ UNCHANGED mainVars

EmptyCache == [q \in {} |-> NoHandle]

CacheAlways(good, p) == TRUE

\* the except branch of create_resized_icon returns without caching
CacheOnDecode(good, p) == p \in good

\* create_resized_icon(icon_path, size) run on cache, with the files in good
\* decodable and n the serial of the next PhotoImage object
CreateResizedIcon(cache, good, p, sz, n) ==
    IF p \in DOMAIN cache
    THEN [cache |-> cache, result |-> cache[p], decoded |-> FALSE]
    ELSE LET h == Handle(p, sz, n, IF p \in good THEN "icon" ELSE "placeholder")
         IN  [cache |-> IF CacheOnDecode(good, p)
                        THEN [q \in DOMAIN cache \cup {p} |->
                                IF q = p THEN h ELSE cache[q]]
                        ELSE cache,
              result |-> h,
              decoded |-> TRUE]

\* a call of create_resized_icon after construction
GetIcon(p, sz) ==
    /\ pc = "idle"
    /\ LET r == CreateResizedIcon(icon_cache, good_files, p, sz, next_handle)
       IN  /\ r.decoded => next_handle <= MaxHandles
           /\ icon_cache' = r.cache
           /\ result' = r.result
           /\ decode_calls' = IF r.decoded
                              THEN [decode_calls EXCEPT ![p] = @ + 1]
                              ELSE decode_calls
           /\ next_handle' = IF r.decoded THEN next_handle + 1 ELSE next_handle
    /\ lastOp' = [op |-> "get_icon", arg |-> p, size |-> sz]
    /\ UNCHANGED <<ui_stack, good_files>>
    /\ UNCHANGED mainVars

\* the environment replaces an icon file on disk
WriteIconFile(p, ok) ==
    /\ pc = "idle"
    /\ good_files' = IF ok THEN good_files \cup {p} ELSE good_files \ {p}
    /\ good_files' # good_files
    /\ lastOp' = [op |-> "write_icon_file", arg |-> p, size |-> 0]
    /\ UNCHANGED <<ui_stack, icon_cache, decode_calls, next_handle, result>>
    /\ UNCHANGED mainVars

\* ------------------------------------------------------- main controller
KeepIcon(current, g) == current

\* the image the label shows after _update_game_icon_indirectly
UpdatedIcon(current, g) ==
    IF g \in DOMAIN game_icons THEN game_icons[g] ELSE current

\* the user edits the identifier field: a key appends a character,
\* BackSpace deletes the last one
TypeText(c) ==
    /\ pc = "idle"
    /\ entry' = IF c = "BackSpace"
                THEN SubSeq(entry, 1, Len(entry) - 1)
                ELSE Append(entry, c)
    /\ IF c = "BackSpace" THEN Len(entry) > 0 ELSE Len(entry) < MaxLen
    /\ lastOp' = Op("type")
    /\ UNCHANGED <<current_user_id, selected_game, game_icons,
                   game_icon_label, avatar_label, status_label, pc, request,
                   image_data, save_path, save_file>>
    /\ UNCHANGED frameworkVars

\* the combobox writes selected_game; the trace runs the icon update
SelectGame(g) ==
    /\ pc = "idle"
    /\ selected_game' = g
    /\ game_icon_label' = UpdatedIcon(game_icon_label, g)
    /\ lastOp' = Op("select")
    /\ UNCHANGED <<entry, current_user_id, game_icons, avatar_label,
                   status_label, pc, request, image_data, save_path,
                   save_file>>
    /\ UNCHANGED frameworkVars

\* ---------------------------------------------------------- avatar loader
LoadOutcomes == {"Invalid ID", "Failed to load", "Avatar loaded"}
ExportOutcomes == {"Exported", "Export failed"}

ThumbnailRequest(id) ==
    [url |-> "https://thumbnails.roblox.com/v1/users/avatar-headshot",
     userIds |-> id, size |-> "420x420", format |-> "Png",
     timeout |-> RequestTimeout]

ImageRequest(id) ==
    [url |-> "imageUrl", userIds |-> id, size |-> "", format |-> "",
     timeout |-> RequestTimeout]

StoreDeferred(old, raw) == old

\* self.current_user_id = raw_input
StoredId(old, raw) == raw

RejectKeepsStatus(old) == old

\* the status after the isdigit test fails
RejectStatus(old) == "Invalid ID"

RejectStoresInput(old, raw) == raw

\* the identifier after the "Invalid ID" return
IdAfterReject(old, raw) == old

FailureClearsId(id) == NoId

\* the identifier after the except branch
IdAfterFailure(id) == id

FailureClearsAvatar(img) == NoImage

\* the avatar image after the except branch
AvatarAfterFailure(img) == img

\* the except branch of _execute_avatar_loading
LoadFails ==
    /\ status_label' = "Failed to load"
    /\ current_user_id' = IdAfterFailure(current_user_id)
    /\ avatar_label' = AvatarAfterFailure(avatar_label)
    /\ pc' = "idle"
    /\ request' = NoRequest
    /\ image_data' = "none"

\* Load Avatar pressed: read, strip and validate the field, store the id
LoadStart ==
    /\ pc = "idle"
    /\ IF ~IsDigit(RawInput)
       THEN /\ status_label' = RejectStatus(status_label)
            /\ current_user_id' = IdAfterReject(current_user_id, RawInput)
            /\ pc' = "idle"
       ELSE /\ current_user_id' = StoredId(current_user_id, RawInput)
            /\ pc' = "stored"
            /\ UNCHANGED status_label
    /\ lastOp' = Op("load")
    /\ UNCHANGED <<entry, selected_game, game_icons, game_icon_label,
                   avatar_label, request, image_data, save_path, save_file>>
    /\ UNCHANGED frameworkVars

\* the thumbnail-resolution GET is sent
SendResolve ==
    /\ pc = "stored"
    /\ request' = ThumbnailRequest(RawInput)
    /\ pc' = "resolve"
    /\ UNCHANGED <<entry, current_user_id, selected_game, game_icons,
                   game_icon_label, avatar_label, status_label, image_data,
                   save_path, save_file, lastOp>>
    /\ UNCHANGED frameworkVars

ResolveOutcomes == {"ok", "network_error", "http_error", "bad_json"}

\* the first GET returns; on the expected body the image GET is sent
ResolveResponse(outcome) ==
    /\ pc = "resolve"
    /\ IF outcome = "ok"
       THEN /\ request' = ImageRequest(request.userIds)
            /\ pc' = "fetch"
            /\ UNCHANGED <<current_user_id, avatar_label, status_label,
                           image_data>>
       ELSE LoadFails
    /\ UNCHANGED <<entry, selected_game, game_icons, game_icon_label,
                   save_path, save_file, lastOp>>
    /\ UNCHANGED frameworkVars

FetchOutcomes == {"png", "garbage", "network_error"}

\* the image GET returns its body (its status is not checked)
FetchResponse(outcome) ==
    /\ pc = "fetch"
    /\ IF outcome = "network_error"
       THEN LoadFails
       ELSE /\ image_data' = outcome
            /\ request' = NoRequest
            /\ pc' = "decode"
            /\ UNCHANGED <<current_user_id, avatar_label, status_label>>
    /\ UNCHANGED <<entry, selected_game, game_icons, game_icon_label,
                   save_path, save_file, lastOp>>
    /\ UNCHANGED frameworkVars

\* Image.open, resize, PhotoImage, then the display and the status
DecodeAndShow ==
    /\ pc = "decode"
    /\ IF image_data = "png"
       THEN /\ avatar_label' = current_user_id
            /\ status_label' = "Avatar loaded"
            /\ pc' = "idle"
            /\ image_data' = "none"
            /\ UNCHANGED <<current_user_id, request>>
       ELSE LoadFails
    /\ UNCHANGED <<entry, selected_game, game_icons, game_icon_label,
                   save_path, save_file, lastOp>>
    /\ UNCHANGED frameworkVars

\* --------------------------------------------------------------- exporter
ArchiveName == "model.mdl"
SavePaths == {"out.zip"}

ExportAlways(id) == TRUE

\* the guard of _execute_model_export
ExportAllowed(id) == id # NoId /\ id # <<>> /\ IsDigit(id)

PayloadGameFirst(id, g) == Label[g] \o <<":">> \o id

\* f"{self.current_user_id}:{self.selected_game.get()}"
Payload(id, g) == id \o <<":">> \o Label[g]

AppendedArchive(old, id, g) ==
    [state |-> "zip",
     entries |-> old.entries \o <<[name |-> ArchiveName, content |-> Payload(id, g)]>>]

\* ZipFile(save_path, "w") with one writestr
WrittenArchive(old, id, g) ==
    [state |-> "zip",
     entries |-> <<[name |-> ArchiveName, content |-> Payload(id, g)]>>]

\* Export pressed
ExportStart ==
    /\ pc = "idle"
    /\ pc' = IF ExportAllowed(current_user_id) THEN "dialog" ELSE "idle"
    /\ lastOp' = Op("export")
    /\ UNCHANGED <<entry, current_user_id, selected_game, game_icons,
                   game_icon_label, avatar_label, status_label, request,
                   image_data, save_path, save_file>>
    /\ UNCHANGED frameworkVars

\* asksaveasfilename returns a path, or "" when cancelled
SaveDialog(path) ==
    /\ pc = "dialog"
    /\ IF path = ""
       THEN pc' = "idle" /\ UNCHANGED save_path
       ELSE pc' = "write" /\ save_path' = path
    /\ UNCHANGED <<entry, current_user_id, selected_game, game_icons,
                   game_icon_label, avatar_label, status_label, request,
                   image_data, save_file, lastOp>>
    /\ UNCHANGED frameworkVars

WriteOutcomes == {"ok", "open_failed", "write_failed"}

\* the with block of _execute_model_export and its except branch
WriteArchive(outcome) ==
    /\ pc = "write"
    /\ IF outcome = "ok"
       THEN /\ save_file' = WrittenArchive(save_file, current_user_id, selected_game)
            /\ status_label' = "Exported"
       ELSE /\ save_file' = IF outcome = "open_failed" THEN save_file ELSE PartialFile
            /\ status_label' = "Export failed"
    /\ pc' = "idle"
    /\ save_path' = ""
    /\ UNCHANGED <<entry, current_user_id, selected_game, game_icons,
                   game_icon_label, avatar_label, request, image_data, lastOp>>
    /\ UNCHANGED frameworkVars

\* ------------------------------------------------------------ construction
\* the three create_resized_icon calls of __init__, in order
IconsBuilt(good) ==
    LET c1 == CreateResizedIcon(EmptyCache, good, IconFile[GameOrder[1]], DefaultIconSize, 1)
        c2 == CreateResizedIcon(c1.cache, good, IconFile[GameOrder[2]], DefaultIconSize, 2)
        c3 == CreateResizedIcon(c2.cache, good, IconFile[GameOrder[3]], DefaultIconSize, 3)
    IN  [cache |-> c3.cache,
         icons |-> [g \in Games |->
                      IF g = GameOrder[1] THEN c1.result
                      ELSE IF g = GameOrder[2] THEN c2.result ELSE c3.result],
         result |-> c3.result]

\* the frames are created in order and "main" is raised
FramesBuilt == RaiseFrame(<<"main", "log", "about">>, "main")

\* the state __init__ leaves, with the icon files in good decodable
Startup(good) ==
    /\ good_files = good
    /\ icon_cache = IconsBuilt(good).cache
    /\ game_icons = IconsBuilt(good).icons
    /\ result = IconsBuilt(good).result
    /\ decode_calls = [p \in IconPaths |-> 1]
    /\ next_handle = 4
    /\ selected_game = "TF2"
    /\ game_icon_label = game_icons["TF2"]
    /\ current_user_id = NoId
    /\ entry = <<>>
    /\ avatar_label = NoImage
    /\ status_label = ""
    /\ pc = "idle"
    /\ request = NoRequest
    /\ image_data = "none"
    /\ save_path = ""
    /\ save_file = NoFile
    /\ ui_stack = FramesBuilt
    /\ lastOp = Op("init")

\* start-ups of the main panel runs: every icon file decodes, or all but one
MainStartups == {IconPaths, IconPaths \ {"gmod.png"}}

Init == \E good \in MainStartups : Startup(good)

\* start-ups of the framework runs: any set of icon files decodes
InitFramework == \E good \in SUBSET IconPaths : Startup(good)

Next ==
    \/ \E c \in Keys : TypeText(c)
    \/ \E g \in Games : SelectGame(g)
    \/ LoadStart
    \/ SendResolve
    \/ \E o \in ResolveOutcomes : ResolveResponse(o)
    \/ \E o \in FetchOutcomes : FetchResponse(o)
    \/ DecodeAndShow
    \/ ExportStart
    \/ \E p \in SavePaths \cup {""} : SaveDialog(p)
    \/ \E o \in WriteOutcomes : WriteArchive(o)

Spec == Init /\ [][Next]_vars

NextFramework ==
    \/ \E f \in FrameNames : Show(f)
    \/ \E p \in IconPaths, sz \in IconSizes : GetIcon(p, sz)
    \/ \E p \in IconPaths, ok \in BOOLEAN : WriteIconFile(p, ok)

SpecFramework == InitFramework /\ [][NextFramework]_vars

\* ================================================================ claims
\* what the claims mean by a digit string
OnlyDigits(s) == Len(s) > 0 /\ \A i \in 1..Len(s) : s[i] \in DigitChars

\* t is s without its leading and trailing whitespace
IsTrimOf(t, s) ==
    \E a \in 0..Len(s), b \in 0..Len(s) :
        /\ a + Len(t) + b = Len(s)
        /\ t = SubSeq(s, a + 1, Len(s) - b)
        /\ \A i \in 1..a : s[i] \in Whitespace
        /\ \A i \in (Len(s) - b + 1)..Len(s) : s[i] \in Whitespace
        /\ t # <<>> => t[1] \notin Whitespace /\ t[Len(t)] \notin Whitespace

Trimmed(s) ==
    CHOOSE t \in {SubSeq(s, i, j) : i \in 1..(Len(s) + 1), j \in 0..Len(s)} :
        IsTrimOf(t, s)

ThumbnailUrl == "https://thumbnails.roblox.com/v1/users/avatar-headshot"
LoadPcs == {"stored", "resolve", "fetch", "decode"}

\* a step in which Load Avatar is pressed
LoadPressed == pc = "idle" /\ lastOp'.op = "load"

\* a step in which Export is pressed
ExportPressed == pc = "idle" /\ lastOp'.op = "export"

\* C1 as stated: whenever the field holds a string that is not a digit
\* string, pressing Load Avatar leaves the Identifier unchanged, sets the
\* status to "Invalid ID" and issues no network call.
C1_Original ==
    [][(LoadPressed /\ ~OnlyDigits(entry)) =>
          /\ current_user_id' = current_user_id
          /\ status_label' = "Invalid ID"
          /\ pc' = "idle" /\ request' = NoRequest]_vars

\* C1 amended: whenever the field's text with its leading and trailing
\* whitespace removed is not a digit string, pressing Load Avatar leaves the
\* Identifier unchanged, sets the status to "Invalid ID" and issues no
\* network call.
C1_RejectAfterTrim ==
    [][(LoadPressed /\ ~OnlyDigits(Trimmed(entry))) =>
          /\ current_user_id' = current_user_id
          /\ status_label' = "Invalid ID"
          /\ pc' = "idle" /\ request' = NoRequest]_vars

C1_Witness ==
    /\ lastOp.op = "load" /\ pc = "idle"
    /\ ~OnlyDigits(Trimmed(entry))
    /\ status_label = "Invalid ID"
    /\ current_user_id # NoId

\* C2: when the field holds a digit string s and Load Avatar runs, the
\* Identifier is s in the state before the first request is sent, in every
\* state with a request in flight, and after the load has ended, failed or
\* not.
C2_IdStoredBeforeCall ==
    (lastOp.op = "load" /\ OnlyDigits(entry)) =>
        /\ current_user_id = entry
        /\ pc = "stored" => request = NoRequest
        /\ request # NoRequest => request.userIds = entry
        /\ pc = "idle" => status_label \in {"Failed to load", "Avatar loaded"}

C2_Witness ==
    /\ lastOp.op = "load" /\ pc = "idle"
    /\ OnlyDigits(entry)
    /\ status_label = "Failed to load"
    /\ current_user_id = entry

\* C3: a load that ends in a failure of the thumbnail call or of a later
\* step keeps the avatar image, sets the status to "Failed to load" and
\* leaves no request in flight; the avatar image changes only in the step
\* that ends a fully successful load with the status "Avatar loaded".
C3_FailureKeepsAvatar ==
    [][/\ (pc \in {"resolve", "fetch", "decode"} /\ pc' = "idle") =>
            \/ /\ status_label' = "Failed to load"
               /\ avatar_label' = avatar_label
               /\ request' = NoRequest
            \/ /\ pc = "decode" /\ image_data = "png"
               /\ status_label' = "Avatar loaded"
               /\ avatar_label' = current_user_id
       /\ (pc = "resolve" /\ pc' # "idle") => pc' = "fetch" /\ request' # NoRequest
       /\ avatar_label' # avatar_label =>
            /\ pc = "decode" /\ image_data = "png"
            /\ status_label' = "Avatar loaded" /\ pc' = "idle"]_vars

C3_Witness ==
    /\ lastOp.op = "load" /\ pc = "idle"
    /\ status_label = "Failed to load"
    /\ avatar_label # NoImage
    /\ avatar_label # current_user_id
    /\ request = NoRequest

\* C4: pressing Export while no Identifier is stored shows no save dialog,
\* writes no file and leaves the status unchanged.
C4_ExportWithoutId ==
    [][(ExportPressed /\ current_user_id = NoId) =>
          /\ pc' = "idle"
          /\ save_file' = save_file
          /\ status_label' = status_label]_vars

C4_Witness ==
    /\ lastOp.op = "export" /\ pc = "idle"
    /\ current_user_id = NoId
    /\ status_label = "Invalid ID"
    /\ save_file = NoFile

\* C5: the write step of an export ends with the status "Exported" or
\* "Export failed"; with "Exported" the file is an archive of exactly one
\* entry, "model.mdl", holding the Identifier, ":" and the game selected at
\* that time; a file left partial goes with "Export failed".
C5_ExportedArchive ==
    [][(pc = "write" /\ pc' = "idle") =>
          /\ status_label' \in {"Exported", "Export failed"}
          /\ status_label' = "Exported" =>
                /\ save_file'.state = "zip"
                /\ Len(save_file'.entries) = 1
                /\ save_file'.entries[1].name = "model.mdl"
                /\ save_file'.entries[1].content =
                      current_user_id \o <<":">> \o Label[selected_game]
          /\ save_file'.state # "zip" => status_label' = "Export failed"]_vars

C5_Witness ==
    /\ lastOp.op = "export" /\ pc = "idle"
    /\ status_label = "Exported"
    /\ save_file.state = "zip"
    /\ save_file.entries = <<[name |-> "model.mdl",
                             content |-> <<"1", ":", "G", "M", "o", "d">>]>>
    /\ avatar_label = NoImage

\* C6: "main" alone is visible after construction; in every state exactly
\* one panel is visible; a show request for one of the three panels makes it
\* the visible one and a request for any other name changes nothing.
C6_OnePanelVisible ==
    /\ Visible = {"main"}
    /\ [](Cardinality(Visible) = 1)
    /\ [][lastOp'.op = "show" =>
            IF lastOp'.arg \in {"main", "log", "about"}
            THEN Visible' = {lastOp'.arg}
            ELSE Visible' = Visible /\ ui_stack' = ui_stack]_vars

C6_Witness ==
    /\ lastOp.op = "show" /\ lastOp.arg = "settings"
    /\ Visible = {"about"}

\* C7: a call for a cached path returns the cached handle, decodes nothing
\* and leaves the cache alone, whatever the size; a call for an uncached path
\* decodes once, and caches and returns the decoded image if the file
\* decodes, else returns a placeholder and caches nothing; entries are never
\* changed or dropped, and no placeholder is ever in the cache.
C7_CacheOnlyDecoded ==
    /\ [](\A p \in DOMAIN icon_cache :
            icon_cache[p].kind = "icon" /\ icon_cache[p].path = p)
    /\ [][/\ \A q \in DOMAIN icon_cache :
                q \in DOMAIN icon_cache' /\ icon_cache'[q] = icon_cache[q]
          /\ lastOp'.op # "get_icon" =>
                icon_cache' = icon_cache /\ decode_calls' = decode_calls
          /\ lastOp'.op = "get_icon" =>
                LET p == lastOp'.arg IN
                IF p \in DOMAIN icon_cache
                THEN /\ result' = icon_cache[p]
                     /\ decode_calls' = decode_calls
                     /\ icon_cache' = icon_cache
                ELSE /\ decode_calls'[p] = decode_calls[p] + 1
                     /\ IF p \in good_files
                        THEN /\ DOMAIN icon_cache' = DOMAIN icon_cache \cup {p}
                             /\ icon_cache'[p] = result'
                             /\ result'.kind = "icon"
                        ELSE /\ icon_cache' = icon_cache
                             /\ result'.kind = "placeholder"]_vars

C7_Witness ==
    /\ lastOp.op = "get_icon"
    /\ lastOp.arg \in DOMAIN icon_cache
    /\ result = icon_cache[lastOp.arg]
    /\ result.size # lastOp.size
    /\ decode_calls[lastOp.arg] = 3

\* C8: the game icon label always shows the image held for the selected
\* game; after construction the selected game is "TF2"; a selection leaves
\* no request in flight and no handler running.
C8_IconFollowsGame ==
    /\ selected_game \in {"TF2", "GMod", "SFM"}
    /\ game_icon_label = game_icons[selected_game]
    /\ lastOp.op = "init" => selected_game = "TF2"
    /\ lastOp.op = "select" => request = NoRequest /\ pc = "idle"

C8_Witness ==
    /\ lastOp.op = "select"
    /\ selected_game = "GMod"
    /\ game_icon_label.path = "gmod.png"
    /\ game_icon_label.kind = "placeholder"
    /\ current_user_id # NoId

\* C9 as stated: every load action and every export action ends with the
\* status set to one of that action's outcomes.
C9_Original ==
    [][/\ (lastOp'.op = "load" /\ pc' = "idle") =>
            status_label' \in {"Invalid ID", "Failed to load", "Avatar loaded"}
       /\ (lastOp'.op = "export" /\ pc' = "idle") =>
            status_label' \in {"Exported", "Export failed"}]_vars

\* C9 amended: every load action ends with the status set to its outcome
\* and every export that reaches the archive write ends with "Exported" or
\* "Export failed"; an export with no stored Identifier or with the save
\* dialog cancelled leaves the status as it was.
C9_StatusOverwritten ==
    [][/\ (LoadPressed /\ pc' = "idle") => status_label' = "Invalid ID"
       /\ (pc \in {"resolve", "fetch", "decode"} /\ pc' = "idle") =>
            status_label' \in {"Failed to load", "Avatar loaded"}
       /\ (pc = "write" /\ pc' = "idle") =>
            status_label' \in {"Exported", "Export failed"}
       /\ (lastOp'.op = "export" /\ pc \in {"idle", "dialog"}) =>
            status_label' = status_label]_vars

C9_Witness ==
    /\ lastOp.op = "export" /\ pc = "idle"
    /\ current_user_id # NoId
    /\ status_label = "Failed to load"

\* C10: the stored Identifier is absent or a non-empty digit string; a field
\* whose trimmed text is a digit string is accepted, and the trimmed text is
\* what is stored and what the thumbnail request carries as userIds; an
\* export writes only a digit string Identifier, and an exported payload is a
\* digit string, ":" and a game label.
C10_TrimmedDigits ==
    /\ current_user_id = NoId \/ OnlyDigits(current_user_id)
    /\ (lastOp.op = "load" /\ OnlyDigits(Trimmed(entry))) =>
          /\ current_user_id = Trimmed(entry)
          /\ pc = "idle" => status_label # "Invalid ID"
    /\ request.url = ThumbnailUrl =>
          request.userIds = Trimmed(entry) /\ OnlyDigits(request.userIds)
    /\ save_file.state = "zip" =>
          LET content == save_file.entries[1].content IN
          \E n \in 1..Len(content), g \in {"TF2", "GMod", "SFM"} :
              /\ OnlyDigits(SubSeq(content, 1, n))
              /\ content = SubSeq(content, 1, n) \o <<":">> \o Label[g]
    /\ pc = "write" => OnlyDigits(current_user_id)

C10_Witness ==
    /\ lastOp.op = "load" /\ pc = "resolve"
    /\ entry # Trimmed(entry)
    /\ entry[Len(entry)] \in Whitespace
    /\ current_user_id = Trimmed(entry)
    /\ request.userIds = Trimmed(entry)

====
